---- MODULE Spec2Model ----
(***************************************************************************)
(* Degrees of separation (src/degrees.py): the in-memory tables built by   *)
(* load_data, the name resolver person_id_for_name, the neighbour lookup   *)
(* neighbors_for_person and the breadth-first search shortest_path, driven *)
(* by main.                                                                *)
(*                                                                         *)
(* Python values are rendered as follows.  None is the string "None" where *)
(* an identifier is expected (a Node's parent and action, a resolved id).  *)
(* A dict is a function whose DOMAIN is its key set.  A value that is      *)
(* either None or a list (the result of shortest_path) is the record       *)
(* [is_none, list].  A call that may raise is the record [raised, value].  *)
(* The fields name/birth/title/year that no decision of the program reads  *)
(* are left out, except a person's name, which builds the name index.      *)
(***************************************************************************)
EXTENDS Naturals, Sequences, FiniteSets, TLC

VARIABLES
    names,      \* degrees.py:7   lower-cased name -> set of person ids
    people,     \* degrees.py:10  person id -> [name, movies]
    movies,     \* degrees.py:13  movie id -> [stars]
    pc,         \* position of the program
    people_csv, \* the rows of people.csv in the chosen directory
    nread,      \* rows of the current csv file read so far
    source,     \* main's / shortest_path's source
    target,     \* main's / shortest_path's target
    frontier,   \* shortest_path: the QueueFrontier's list of nodes
    nodes_db,   \* shortest_path: person id -> Node
    current,    \* shortest_path: the node being explored / backtracked
    neighbors,  \* shortest_path: pairs the for loop has still to visit
    ret,        \* shortest_path: pairs collected while backtracking
    path,       \* the value shortest_path returned
    first,      \* the result of an earlier call on the same tables
    nbr,        \* the result of a direct neighbors_for_person call
    other       \* the locals of a second shortest_path call in progress

vars == <<names, people, movies, pc, people_csv, nread, source, target, frontier,
          nodes_db, current, neighbors, ret, path, first, nbr, other>>

tables == <<names, people, movies>>
search == <<frontier, nodes_db, current, neighbors, ret, path>>

----------------------------------------------------------------------------
(* The data the runs draw their inputs from.                               *)

PersonIds == {"p1", "p2", "p3", "p4"}
MovieIds == {"m1", "m2", "m3"}
UnknownPerson == "p9"
UnknownMovie == "m9"

\* At most this many (person, movie) memberships are loaded from stars.csv.
MaxStars == 4

\* At most this many rows are in a people.csv whose names are left open.
MaxPeople == 3

\* The names that occur in people.csv and at the prompts.
NameStrings == {"Ann", "ann", "ANN", "Bob", "BOB", "Cy", "Dan", "Eve"}

\* str.lower() on the names above.
Lower(s) ==
    CASE s \in {"Ann", "ann", "ANN"} -> "ann"
      [] s \in {"Bob", "BOB"} -> "bob"
      [] s = "Cy" -> "cy"
      [] s = "Dan" -> "dan"
      [] s = "Eve" -> "eve"
      [] OTHER -> s

\* people.csv and movies.csv of the fixed data set: two people share a name
\* up to case.
PeopleCsv == << [id |-> "p1", name |-> "Ann"], [id |-> "p2", name |-> "Bob"],
                [id |-> "p3", name |-> "BOB"], [id |-> "p4", name |-> "Cy"] >>
MoviesCsv == << [id |-> "m1"], [id |-> "m2"], [id |-> "m3"] >>

\* The rows a stars.csv may hold: every pair of identifiers, known or not.
AllStarsRows ==
    [person_id : PersonIds \cup {UnknownPerson},
     movie_id : MovieIds \cup {UnknownMovie}]

\* The rows a stars.csv on five people is made of in the runs where the
\* order of exploration matters: with the first eight rows p1 reaches p5
\* through p3 in two steps and through p2 and p4 in three.
DeepStarsRows ==
    { [person_id |-> "p1", movie_id |-> "m1"],
      [person_id |-> "p2", movie_id |-> "m1"],
      [person_id |-> "p3", movie_id |-> "m1"],
      [person_id |-> "p2", movie_id |-> "m2"],
      [person_id |-> "p4", movie_id |-> "m2"],
      [person_id |-> "p3", movie_id |-> "m3"],
      [person_id |-> "p4", movie_id |-> "m3"],
      [person_id |-> "p5", movie_id |-> "m3"],
      [person_id |-> "p5", movie_id |-> "m2"] }

\* The rows stars.csv holds in the runs that go on to search: every known
\* pair, one row naming an unknown movie and one naming an unknown person.
StarsRows ==
    [person_id : PersonIds, movie_id : MovieIds] \cup
    { [person_id |-> "p1", movie_id |-> UnknownMovie],
      [person_id |-> UnknownPerson, movie_id |-> "m1"] }

None == "None"
EmptyDict == [k \in {} |-> None]

----------------------------------------------------------------------------
(* load_data                                                               *)

\* degrees.py:24-28
PeopleAfterRow(pp, row) ==
    (row.id :> [name |-> row.name, movies |-> {}]) @@ pp

\* degrees.py:29-32
NamesAfterRow(nn, row) ==
    IF Lower(row.name) \notin DOMAIN nn
    THEN (Lower(row.name) :> {row.id}) @@ nn
    ELSE [nn EXCEPT ![Lower(row.name)] = @ \cup {row.id}]

\* degrees.py:38-42
MoviesAfterRow(mm, row) ==
    (row.id :> [stars |-> {}]) @@ mm

\* degrees.py:49 (a KeyError on people[...] leaves the table as it is)
PeopleAfterStar(pp, row) ==
    IF row.person_id \in DOMAIN pp
    THEN [pp EXCEPT ![row.person_id].movies = @ \cup {row.movie_id}]
    ELSE pp

\* degrees.py:50, reached only when line 49 raised nothing
MoviesAfterStar(pp, mm, row) ==
    IF row.person_id \in DOMAIN pp /\ row.movie_id \in DOMAIN mm
    THEN [mm EXCEPT ![row.movie_id].stars = @ \cup {row.person_id}]
    ELSE mm

\* The number of memberships the people table holds.
RECURSIVE CountMovies(_, _)
CountMovies(pp, ids) ==
    IF ids = {} THEN 0
    ELSE LET p == CHOOSE x \in ids : TRUE
         IN Cardinality(pp[p].movies) + CountMovies(pp, ids \ {p})

StarsLoaded == CountMovies(people, DOMAIN people)

\* The locals of a call of shortest_path that has not been made.
NoCall ==
    [pc |-> "none", source |-> None, target |-> None, frontier |-> << >>,
     nodes_db |-> EmptyDict,
     current |-> [state |-> None, parent |-> None, action |-> None],
     neighbors |-> {}, ret |-> << >>,
     path |-> [is_none |-> TRUE, list |-> << >>]]

InitRest ==
    /\ names = EmptyDict
    /\ people = EmptyDict
    /\ movies = EmptyDict
    /\ pc = "load_people"
    /\ nread = 0
    /\ source = None
    /\ target = None
    /\ frontier = << >>
    /\ nodes_db = EmptyDict
    /\ current = [state |-> None, parent |-> None, action |-> None]
    /\ neighbors = {}
    /\ ret = << >>
    /\ path = [is_none |-> TRUE, list |-> << >>]
    /\ first = [done |-> FALSE, is_none |-> TRUE, len |-> 0]
    /\ nbr = [called |-> FALSE, person_id |-> None, raised |-> FALSE,
              value |-> {}]
    /\ other = NoCall

\* degrees.py:21-32, one row of people.csv
LoadPeopleRow ==
    /\ pc = "load_people"
    /\ nread < Len(people_csv)
    /\ LET row == people_csv[nread + 1]
       IN /\ people' = PeopleAfterRow(people, row)
          /\ names' = NamesAfterRow(names, row)
    /\ nread' = nread + 1
    /\ UNCHANGED <<movies, pc, people_csv, other, source, target, search, first, nbr>>

\* degrees.py:35, people.csv is exhausted and movies.csv is opened
EndPeople ==
    /\ pc = "load_people"
    /\ nread = Len(people_csv)
    /\ pc' = "load_movies"
    /\ nread' = 0
    /\ UNCHANGED <<tables, people_csv, other, source, target, search, first, nbr>>

\* degrees.py:35-42, one row of movies.csv
LoadMoviesRow ==
    /\ pc = "load_movies"
    /\ nread < Len(MoviesCsv)
    /\ movies' = MoviesAfterRow(movies, MoviesCsv[nread + 1])
    /\ nread' = nread + 1
    /\ UNCHANGED <<names, people, pc, people_csv, other, source, target, search, first, nbr>>

\* degrees.py:45, movies.csv is exhausted and stars.csv is opened
EndMovies ==
    /\ pc = "load_movies"
    /\ nread = Len(MoviesCsv)
    /\ pc' = "load_stars"
    /\ nread' = 0
    /\ UNCHANGED <<tables, people_csv, other, source, target, search, first, nbr>>

\* degrees.py:47-52, one row of stars.csv
LoadStarsRow(row) ==
    /\ pc = "load_stars"
    /\ people' = PeopleAfterStar(people, row)
    /\ movies' = MoviesAfterStar(people, movies, row)
    /\ UNCHANGED <<names, pc, people_csv, other, nread, source, target, search, first, nbr>>

\* degrees.py:62-63, load_data returns
EndStars ==
    /\ pc = "load_stars"
    /\ pc' = "loaded"
    /\ UNCHANGED <<tables, people_csv, other, nread, source, target, search, first, nbr>>

----------------------------------------------------------------------------
(* person_id_for_name and neighbors_for_person                             *)

\* degrees.py:181, names.get(name.lower(), set())
PersonIdsNamed(nn, name) ==
    IF Lower(name) \in DOMAIN nn THEN nn[Lower(name)] ELSE {}

\* As PersonIdForName, but whatever is typed at the prompt is returned.
PersonIdForNameUnchecked(nn, name, choice) ==
    LET person_ids == PersonIdsNamed(nn, name)
    IN IF Cardinality(person_ids) = 0 THEN None
       ELSE IF Cardinality(person_ids) > 1 THEN choice
            ELSE CHOOSE p \in person_ids : TRUE

\* degrees.py:176-199; choice is what is typed at "Intended Person ID: ",
\* read only when several people carry the name.
PersonIdForName(nn, name, choice) ==
    LET person_ids == PersonIdsNamed(nn, name)
    IN IF Cardinality(person_ids) = 0 THEN None
       ELSE IF Cardinality(person_ids) > 1
            THEN IF choice \in person_ids THEN choice ELSE None
            ELSE CHOOSE p \in person_ids : TRUE

\* degrees.py:207 and 210: people[person_id] and movies[movie_id] raise
\* KeyError on a missing key.
NeighborsRaises(pp, mm, person_id) ==
    \/ person_id \notin DOMAIN pp
    \/ \E movie_id \in pp[person_id].movies : movie_id \notin DOMAIN mm

\* As NeighborsSet, but the function returns inside the outer loop: only one
\* of the person's movies is visited.
NeighborsSetFirstMovieOnly(pp, mm, person_id) ==
    IF pp[person_id].movies = {} THEN {}
    ELSE LET movie_id == CHOOSE m \in pp[person_id].movies : TRUE
         IN {<<movie_id, p>> : p \in mm[movie_id].stars}

\* As NeighborsSet, but the queried person is left out of the pairs.
NeighborsSetOthersOnly(pp, mm, person_id) ==
    UNION {{<<movie_id, p>> : p \in mm[movie_id].stars \ {person_id}} :
               movie_id \in pp[person_id].movies}

\* degrees.py:207-212, the set built when no lookup raises: every star of
\* every movie of the person
NeighborsSet(pp, mm, person_id) ==
    UNION {{<<movie_id, p>> : p \in mm[movie_id].stars} :
               movie_id \in pp[person_id].movies}

\* As NeighborsForPerson, but an unknown person has no movies (people.get)
\* instead of raising.
NeighborsForPersonLenient(pp, mm, person_id) ==
    IF person_id \notin DOMAIN pp
    THEN [raised |-> FALSE, value |-> {}]
    ELSE IF NeighborsRaises(pp, mm, person_id)
         THEN [raised |-> TRUE, value |-> {}]
         ELSE [raised |-> FALSE, value |-> NeighborsSet(pp, mm, person_id)]

\* degrees.py:202-212
NeighborsForPerson(pp, mm, person_id) ==
    IF NeighborsRaises(pp, mm, person_id)
    THEN [raised |-> TRUE, value |-> {}]
    ELSE [raised |-> FALSE, value |-> NeighborsSet(pp, mm, person_id)]

----------------------------------------------------------------------------
(* util.Node and util.QueueFrontier                                        *)

\* util.Node(state, parent, action)
Node(state, parent, action) ==
    [state |-> state, parent |-> parent, action |-> action]

\* QueueFrontier.add: the node joins the end of the list
FrontierAdd(f, node) == Append(f, node)

\* QueueFrontier.empty
FrontierEmpty(f) == Len(f) = 0

\* QueueFrontier.remove: the node at the head of the list leaves it
FrontierRemoved(f) == Head(f)
FrontierAfterRemove(f) == Tail(f)

----------------------------------------------------------------------------
(* shortest_path                                                           *)

\* degrees.py:100-104
StartNode(src) == Node(src, None, None)

\* As RecordedAtDequeue, but with the record-if-absent step taken out.
RecordedAtDequeueRemoved(db, node) == db

\* degrees.py:119-120
RecordedAtDequeue(db, node) ==
    IF node.state \notin DOMAIN db THEN (node.state :> node) @@ db ELSE db

\* As IsTarget, but the Node itself is compared with the target identifier.
IsTargetNodeCompared(node, tgt) == FALSE

\* degrees.py:123
IsTarget(node, tgt) == node.state = tgt

\* As AlreadyRecorded, but no neighbour is ever taken as recorded.
AlreadyRecordedNever(db, neighbor) == FALSE

\* degrees.py:131
AlreadyRecorded(db, neighbor) == neighbor[2] \in DOMAIN db

\* As NextNode, but the parent is taken from the current node's parent.
NextNodeGrandparent(cur, neighbor) == Node(neighbor[2], cur.parent, neighbor[1])

\* As NextNode, but the neighbour is made its own parent.
NextNodeSelfParent(cur, neighbor) == Node(neighbor[2], neighbor[2], neighbor[1])

\* As NextNode, but the action is taken from the current node.
NextNodeActionLost(cur, neighbor) == Node(neighbor[2], cur.state, cur.action)

\* degrees.py:135-139
NextNode(cur, neighbor) == Node(neighbor[2], cur.state, neighbor[1])

\* As RecordedAtEnqueue, but the node is only put in the frontier.
RecordedAtEnqueueForgotten(db, node) == db

\* degrees.py:145
RecordedAtEnqueue(db, node) == (node.state :> node) @@ db

\* As Reverse, but the list is left in backtracking order.
ReverseForgotten(s) == s

\* degrees.py:171, list.reverse()
RECURSIVE Reverse(_)
Reverse(s) ==
    IF s = << >> THEN << >> ELSE Append(Reverse(Tail(s)), Head(s))

\* As EnterShortestPath, but nodes_db is not created anew: the call starts
\* with whatever the dictionary of that name holds.
EnterShortestPathStaleDb(src, tgt) ==
    /\ source' = src
    /\ target' = tgt
    /\ frontier' = FrontierAdd(<< >>, StartNode(src))
    /\ nodes_db' = nodes_db
    /\ current' = [state |-> None, parent |-> None, action |-> None]
    /\ neighbors' = {}
    /\ ret' = << >>
    /\ path' = [is_none |-> TRUE, list |-> << >>]
    /\ pc' = "while"

\* degrees.py:94-111, the call: a fresh frontier holding the start node and
\* an empty nodes_db
EnterShortestPath(src, tgt) ==
    /\ source' = src
    /\ target' = tgt
    /\ frontier' = FrontierAdd(<< >>, StartNode(src))
    /\ nodes_db' = EmptyDict
    /\ current' = [state |-> None, parent |-> None, action |-> None]
    /\ neighbors' = {}
    /\ ret' = << >>
    /\ path' = [is_none |-> TRUE, list |-> << >>]
    /\ pc' = "while"

\* degrees.py:114, the loop condition fails
WhileExit ==
    /\ pc = "while"
    /\ FrontierEmpty(frontier)
    /\ pc' = "after_loop"
    /\ UNCHANGED <<tables, people_csv, other, nread, source, target, frontier,
                   nodes_db, current, neighbors, ret, path, first, nbr>>

\* degrees.py:114-126, one iteration up to the for loop: dequeue, record,
\* test for the target, look the neighbours up
WhileStep ==
    /\ pc = "while"
    /\ ~FrontierEmpty(frontier)
    /\ LET cur == FrontierRemoved(frontier)
           found == NeighborsForPerson(people, movies, cur.state)
       IN /\ current' = cur
          /\ frontier' = FrontierAfterRemove(frontier)
          /\ nodes_db' = RecordedAtDequeue(nodes_db, cur)
          /\ IF IsTarget(cur, target)
             THEN pc' = "after_loop" /\ UNCHANGED neighbors
             ELSE IF found.raised
                  THEN pc' = "KeyError" /\ UNCHANGED neighbors
                  ELSE /\ neighbors' = found.value
                       /\ pc' = IF found.value = {} THEN "while" ELSE "for"
    /\ UNCHANGED <<tables, people_csv, other, nread, source, target, ret, path,
                   first, nbr>>

\* degrees.py:129-145, one pass of the for loop; a Python set is iterated
\* in an order the program does not control
ForStep ==
    /\ pc = "for"
    /\ \E neighbor \in neighbors :
          /\ neighbors' = neighbors \ {neighbor}
          /\ pc' = IF neighbors' = {} THEN "while" ELSE "for"
          /\ IF AlreadyRecorded(nodes_db, neighbor)
             THEN UNCHANGED <<frontier, nodes_db>>
             ELSE LET next_node == NextNode(current, neighbor)
                  IN /\ frontier' = FrontierAdd(frontier, next_node)
                     /\ nodes_db' = RecordedAtEnqueue(nodes_db, next_node)
    /\ UNCHANGED <<tables, people_csv, other, nread, source, target, current, ret,
                   path, first, nbr>>

\* degrees.py:150-156
AfterLoop ==
    /\ pc = "after_loop"
    /\ IF target \notin DOMAIN nodes_db
       THEN /\ path' = [is_none |-> TRUE, list |-> << >>]
            /\ pc' = "returned"
            /\ UNCHANGED <<current, ret>>
       ELSE /\ current' = nodes_db[target]
            /\ ret' = << >>
            /\ pc' = "backtrack"
            /\ UNCHANGED path
    /\ UNCHANGED <<tables, people_csv, other, nread, source, target, frontier,
                   nodes_db, neighbors, first, nbr>>

\* degrees.py:159-166, one iteration of the backtracking loop
BacktrackStep ==
    /\ pc = "backtrack"
    /\ current.state # StartNode(source).state
    /\ ret' = Append(ret, <<current.action, current.state>>)
    /\ IF current.parent \in DOMAIN nodes_db
       THEN current' = nodes_db[current.parent] /\ pc' = "backtrack"
       ELSE pc' = "KeyError" /\ UNCHANGED current
    /\ UNCHANGED <<tables, people_csv, other, nread, source, target, frontier,
                   nodes_db, neighbors, path, first, nbr>>

\* As Return, but the pair of the node the loop stopped at is appended too.
ReturnWithSource ==
    /\ pc = "backtrack"
    /\ current.state = StartNode(source).state
    /\ path' = [is_none |-> FALSE,
                list |-> Reverse(Append(ret, <<current.action, current.state>>))]
    /\ pc' = "returned"
    /\ UNCHANGED <<tables, people_csv, other, nread, source, target, frontier,
                   nodes_db, current, neighbors, ret, first, nbr>>

\* degrees.py:159 and 171-173, the loop ends and the reversed list is returned
Return ==
    /\ pc = "backtrack"
    /\ current.state = StartNode(source).state
    /\ path' = [is_none |-> FALSE, list |-> Reverse(ret)]
    /\ pc' = "returned"
    /\ UNCHANGED <<tables, people_csv, other, nread, source, target, frontier,
                   nodes_db, current, neighbors, ret, first, nbr>>

----------------------------------------------------------------------------
(* main                                                                    *)

\* What may be typed at the "Intended Person ID: " prompt.
Choices == PersonIds \cup {UnknownPerson}

\* degrees.py:184-192: the prompt is shown, and an answer read, only when
\* several people carry the name; None stands for nothing read.
PromptChoices(name) ==
    IF Cardinality(PersonIdsNamed(names, name)) > 1 THEN Choices ELSE {None}

\* degrees.py:65-67
ResolveSource(name, choice) ==
    /\ pc = "loaded"
    /\ source' = PersonIdForName(names, name, choice)
    /\ pc' = IF source' = None THEN "exit_not_found" ELSE "input_target"
    /\ UNCHANGED <<tables, people_csv, other, nread, target, search, first, nbr>>

\* As ResolveTarget, but the test for None is missing.
ResolveTargetUnchecked(name, choice) ==
    /\ pc = "input_target"
    /\ target' = PersonIdForName(names, name, choice)
    /\ pc' = "call"
    /\ UNCHANGED <<tables, people_csv, other, nread, source, search, first, nbr>>

\* degrees.py:68-70
ResolveTarget(name, choice) ==
    /\ pc = "input_target"
    /\ target' = PersonIdForName(names, name, choice)
    /\ pc' = IF target' = None THEN "exit_not_found" ELSE "call"
    /\ UNCHANGED <<tables, people_csv, other, nread, source, search, first, nbr>>

\* degrees.py:72
CallShortestPath ==
    /\ pc = "call"
    /\ EnterShortestPath(source, target)
    /\ UNCHANGED <<tables, people_csv, other, nread, first, nbr>>

\* A second call on the same tables with the arguments exchanged; the first
\* call's result is kept for comparison.
CallReversed ==
    /\ pc = "returned"
    /\ ~first.done
    /\ first' = [done |-> TRUE, is_none |-> path.is_none, len |-> Len(path.list)]
    /\ EnterShortestPath(target, source)
    /\ UNCHANGED <<tables, people_csv, other, nread, nbr>>

\* A direct call of neighbors_for_person on the loaded tables.
CallNeighbors(person_id) ==
    /\ pc = "loaded"
    /\ nbr' = [called |-> TRUE, person_id |-> person_id] @@
                  NeighborsForPerson(people, movies, person_id)
    /\ pc' = "neighbors_returned"
    /\ UNCHANGED <<tables, people_csv, other, nread, source, target, search, first>>

\* The locals of the call of shortest_path the variables stand for.
Locals ==
    [pc |-> pc, source |-> source, target |-> target, frontier |-> frontier,
     nodes_db |-> nodes_db, current |-> current, neighbors |-> neighbors,
     ret |-> ret, path |-> path]

\* A second call of shortest_path on the same tables is made while the first
\* is in its loop; the first call's locals are set aside.
CallConcurrently(src, tgt) ==
    /\ pc \in {"while", "for"}
    /\ other = NoCall
    /\ other' = Locals
    /\ EnterShortestPath(src, tgt)
    /\ UNCHANGED <<tables, people_csv, nread, first, nbr>>

\* The next step is taken by the other of the two calls.
Switch ==
    /\ other # NoCall
    /\ other' = Locals
    /\ pc' = other.pc
    /\ source' = other.source
    /\ target' = other.target
    /\ frontier' = other.frontier
    /\ nodes_db' = other.nodes_db
    /\ current' = other.current
    /\ neighbors' = other.neighbors
    /\ ret' = other.ret
    /\ path' = other.path
    /\ UNCHANGED <<tables, people_csv, nread, first, nbr>>

\* A direct call of shortest_path on the loaded tables, with a known source
\* and any target.
CallDirect(src, tgt) ==
    /\ pc = "loaded"
    /\ EnterShortestPath(src, tgt)
    /\ UNCHANGED <<tables, people_csv, other, nread, first, nbr>>

----------------------------------------------------------------------------
(* Specifications                                                          *)

\* people.csv of the runs on five people.
FivePeopleCsv == Append(PeopleCsv, [id |-> "p5", name |-> "Dan"])

\* people.csv of the runs that compare a search with the reversed search.
ThreePeopleCsv == SubSeq(PeopleCsv, 1, 3)

\* The people.csv files of at most MaxPeople rows, identifiers p1, p2, ...
\* in order, every row with any of the names.
OpenPeopleCsv ==
    LET ids == <<"p1", "p2", "p3", "p4">>
    IN UNION { { [i \in 1..n |-> [id |-> ids[i], name |-> f[i]]] :
                   f \in [1..n -> {"Ann", "ann", "Bob"}] } :
               n \in 0..(IF MaxPeople < 4 THEN MaxPeople ELSE 4) }

LoadFiles ==
    \/ LoadPeopleRow
    \/ EndPeople
    \/ LoadMoviesRow
    \/ EndMovies
    \/ EndStars

Main ==
    \/ \E name \in NameStrings : \E choice \in PromptChoices(name) :
          ResolveSource(name, choice)
    \/ \E name \in NameStrings : \E choice \in PromptChoices(name) :
          ResolveTarget(name, choice)
    \/ CallShortestPath

ShortestPath ==
    \/ WhileExit
    \/ WhileStep
    \/ ForStep
    \/ AfterLoop
    \/ BacktrackStep
    \/ Return

\* The whole program on the fixed people.csv and movies.csv and any
\* stars.csv of at most MaxStars memberships.
Init == people_csv = PeopleCsv /\ InitRest

Next ==
    \/ LoadFiles
    \/ \E row \in StarsRows : StarsLoaded < MaxStars /\ LoadStarsRow(row)
    \/ Main
    \/ ShortestPath

Spec == Init /\ [][Next]_vars

\* The same program on three people, followed by a second search with the
\* arguments exchanged.
InitPair == people_csv = ThreePeopleCsv /\ InitRest

NextPair ==
    \/ Next
    \/ CallReversed

SpecPair == InitPair /\ [][NextPair]_vars

\* The same program on five people and any stars.csv made of DeepStarsRows.
InitDeep == people_csv = FivePeopleCsv /\ InitRest

NextDeep ==
    \/ LoadFiles
    \/ \E row \in DeepStarsRows : LoadStarsRow(row)
    \/ Main
    \/ ShortestPath

SpecDeep == InitDeep /\ [][NextDeep]_vars

\* load_data on any stars.csv, followed by one neighbour lookup.
NextStore ==
    \/ LoadFiles
    \/ \E row \in AllStarsRows : StarsLoaded < MaxStars /\ LoadStarsRow(row)
    \/ \E person_id \in PersonIds \cup {UnknownPerson} : CallNeighbors(person_id)

SpecStore == Init /\ [][NextStore]_vars

\* main up to the call of shortest_path, on any people.csv and an empty
\* stars.csv.
InitNames == people_csv \in OpenPeopleCsv /\ InitRest

NextNames ==
    \/ LoadFiles
    \/ Main

SpecNames == InitNames /\ [][NextNames]_vars

\* The rows a stars.csv on three people is made of in the runs of two
\* interleaved searches.
TwoStarsRows ==
    { [person_id |-> "p1", movie_id |-> "m1"],
      [person_id |-> "p2", movie_id |-> "m1"],
      [person_id |-> "p2", movie_id |-> "m2"],
      [person_id |-> "p3", movie_id |-> "m2"],
      [person_id |-> "p1", movie_id |-> "m2"] }

\* The program on three people, with a second search started during the
\* first and the steps of the two interleaved in any order.
NextTwo ==
    \/ LoadFiles
    \/ \E row \in TwoStarsRows : LoadStarsRow(row)
    \/ Main
    \/ ShortestPath
    \/ \E src, tgt \in DOMAIN people : CallConcurrently(src, tgt)
    \/ Switch

SpecTwo == InitPair /\ [][NextTwo]_vars

\* load_data on three people followed by one search from a known source to
\* any target, the steps of the search being taken for as long as there is
\* one to take.
NextLive ==
    \/ LoadFiles
    \/ \E row \in StarsRows : StarsLoaded < MaxStars /\ LoadStarsRow(row)
    \/ \E src \in DOMAIN people : \E tgt \in PersonIds \cup {UnknownPerson} :
          CallDirect(src, tgt)
    \/ ShortestPath

SpecLive == InitPair /\ [][NextLive]_vars /\ WF_vars(ShortestPath)

----------------------------------------------------------------------------
(* Reference notions the properties are stated with                        *)

\* Person P is in movie E's stars iff E is in P's movies.
Consistent ==
    /\ \A p \in DOMAIN people : \A m \in people[p].movies :
          m \in DOMAIN movies /\ p \in movies[m].stars
    /\ \A m \in DOMAIN movies : \A p \in movies[m].stars :
          p \in DOMAIN people /\ m \in people[p].movies

\* p and q are both stars of some movie.
ShareMovie(p, q) == \E m \in DOMAIN movies : {p, q} \subseteq movies[m].stars

\* The people within k shared-movie edges of s.
RECURSIVE Within(_, _)
Within(s, k) ==
    IF k = 0 THEN {s}
    ELSE LET near == Within(s, k - 1)
         IN near \cup {q \in DOMAIN people : \E p \in near : ShareMovie(p, q)}

\* A chain of shared movies joins s and t.
Connected(s, t) == t \in Within(s, Cardinality(DOMAIN people))

\* The least number of shared-movie edges between s and t, for connected s, t.
Distance(s, t) ==
    CHOOSE k \in 0..Cardinality(DOMAIN people) :
        /\ t \in Within(s, k)
        /\ k = 0 \/ t \notin Within(s, k - 1)

\* shortest_path was called and has not returned or raised yet, or has.
InShortestPath ==
    pc \in {"while", "for", "after_loop", "backtrack", "returned", "KeyError"}

\* The call has ended, by a return or by an uncaught KeyError.
CallEnded == pc \in {"returned", "KeyError"}

----------------------------------------------------------------------------
(* Properties                                                              *)

\* C1: on mutually consistent tables, for P and Q joined by a chain of
\* shared movies, shortest_path(P, Q) returns a list whose length is the
\* least number of shared-movie edges between P and Q.
C1_ShortestLength ==
    (CallEnded /\ Consistent /\ Connected(source, target)) =>
        /\ pc = "returned"
        /\ ~path.is_none
        /\ Len(path.list) = Distance(source, target)

\* A search over consistent tables has returned a two-step path to a target
\* that also shares a movie with a person two steps from the source, whom
\* the search had already discovered: a three-step chain was on offer.
C1_Witness ==
    /\ pc = "returned"
    /\ Consistent
    /\ Connected(source, target)
    /\ Distance(source, target) = 2
    /\ ~path.is_none
    /\ Len(path.list) = 2
    /\ \E q \in DOMAIN nodes_db \ {target} :
          /\ ShareMovie(q, target)
          /\ Distance(source, q) = 2

\* C2: shortest_path(P, P) returns the empty list and never None; the loop
\* stops in its first iteration, when the source node is dequeued, before
\* any neighbour is looked up, and backtracking collects no pair.
C2_SameEndpoints ==
    (InShortestPath /\ source = target) =>
        /\ pc \notin {"for", "KeyError"}
        /\ pc = "while" => frontier = <<StartNode(source)>> /\ nodes_db = EmptyDict
        /\ pc # "while" => frontier = << >> /\ DOMAIN nodes_db = {source}
        /\ ret = << >>
        /\ pc = "returned" => ~path.is_none /\ path.list = << >>

\* shortest_path(P, P) has returned the empty list for a person who has
\* movies.
C2_Witness ==
    /\ pc = "returned"
    /\ source = target
    /\ people[source].movies # {}
    /\ ~path.is_none
    /\ path.list = << >>

\* C3, as claimed: whenever no chain of shared movies joins P and Q the call
\* shortest_path(P, Q) returns None, and None is returned only then.
C3_NoneIffDisconnected ==
    CallEnded =>
        /\ ~Connected(source, target) => pc = "returned" /\ path.is_none
        /\ (pc = "returned" /\ path.is_none) => ~Connected(source, target)

\* C4: in every returned list, each pair's person is a star of the pair's
\* movie, and so is the person of the previous step (the source, for the
\* first pair).
C4_PairsShareMovie ==
    (pc = "returned" /\ ~path.is_none) =>
        \A i \in 1..Len(path.list) :
            LET movie_id == path.list[i][1]
                person_id == path.list[i][2]
                previous == IF i = 1 THEN source ELSE path.list[i - 1][2]
            IN /\ movie_id \in DOMAIN movies
               /\ person_id \in movies[movie_id].stars
               /\ previous \in movies[movie_id].stars

\* A list of two pairs through two different movies has been returned.
C4_Witness ==
    /\ pc = "returned"
    /\ ~path.is_none
    /\ Len(path.list) = 2
    /\ path.list[1][1] # path.list[2][1]

\* C5: on mutually consistent tables, shortest_path(P, Q) and
\* shortest_path(Q, P) are both None or both lists of the same length.
C5_SymmetricLength ==
    (pc = "returned" /\ first.done /\ Consistent) =>
        /\ path.is_none = first.is_none
        /\ Len(path.list) = first.len

\* Both directions have been searched and each returned a two-step list.
C5_Witness ==
    /\ pc = "returned"
    /\ first.done
    /\ Consistent
    /\ ~first.is_none
    /\ first.len = 2
    /\ ~path.is_none
    /\ Len(path.list) = 2

\* C6, as claimed: for a known person P, neighbors_for_person(P) is exactly
\* the pairs (M, X) with M a movie P is a star of and X another star of M,
\* X different from P.  Stated for the calls in which every movie of P is in
\* the movies table.
C6_OtherStarsOnly ==
    (nbr.called /\ nbr.person_id \in DOMAIN people
        /\ people[nbr.person_id].movies \subseteq DOMAIN movies) =>
        /\ ~nbr.raised
        /\ nbr.value =
             {pair \in (DOMAIN movies) \X (DOMAIN people) :
                 /\ nbr.person_id \in movies[pair[1]].stars
                 /\ pair[2] \in movies[pair[1]].stars
                 /\ pair[2] # nbr.person_id}

\* C6, amended: for a known person P, neighbors_for_person(P) is exactly the
\* pairs (M, X) with M a movie P is a star of and X any star of M, P
\* included; when a movie of P is missing from the movies table the call
\* raises KeyError instead.
C6_AllStarsOfSharedMovies ==
    (nbr.called /\ nbr.person_id \in DOMAIN people) =>
        IF people[nbr.person_id].movies \subseteq DOMAIN movies
        THEN /\ ~nbr.raised
             /\ nbr.value =
                  {pair \in (DOMAIN movies) \X (DOMAIN people) :
                      /\ nbr.person_id \in movies[pair[1]].stars
                      /\ pair[2] \in movies[pair[1]].stars}
             /\ \A m \in people[nbr.person_id].movies :
                   <<m, nbr.person_id>> \in nbr.value
        ELSE nbr.raised

\* The neighbours of a person with a costar have been returned, the person's
\* own pair among them.
C6_Witness ==
    /\ nbr.called
    /\ ~nbr.raised
    /\ \E pair \in nbr.value : pair[2] # nbr.person_id
    /\ \E pair \in nbr.value : pair[2] = nbr.person_id

\* C7, as claimed: for an identifier that is not in the people table,
\* neighbors_for_person returns the empty set and raises nothing.
C7_UnknownGivesEmptySet ==
    (nbr.called /\ nbr.person_id \notin DOMAIN people) =>
        ~nbr.raised /\ nbr.value = {}

\* C7, amended: for an identifier that is not in the people table,
\* neighbors_for_person raises KeyError and returns no set.
C7_UnknownRaisesKeyError ==
    (nbr.called /\ nbr.person_id \notin DOMAIN people) => nbr.raised

\* The lookup has been called with an unknown identifier on loaded tables.
C7_Witness ==
    /\ nbr.called
    /\ nbr.person_id = UnknownPerson
    /\ nbr.person_id \notin DOMAIN people
    /\ StarsLoaded > 0

\* C8, as claimed: after any sequence of stars.csv rows the tables are
\* mutually consistent: P is in movies[E].stars iff E is in people[P].movies
\* (a row naming an unknown person or movie changes neither table).
C8_TablesConsistent ==
    pc \in {"load_stars", "loaded"} => Consistent

\* C9: person_id_for_name, matching case-insensitively, returns None when
\* no person has the name, the person's identifier when exactly one has it,
\* and with several the identifier typed at the prompt if it is one of them
\* and None otherwise.  Bearers is read off the people table, not the index.
Bearers(name) ==
    {p \in DOMAIN people : Lower(people[p].name) = Lower(name)}

Resolution(name, choice) ==
    IF Bearers(name) = {} THEN None
    ELSE IF Cardinality(Bearers(name)) = 1
         THEN CHOOSE p \in Bearers(name) : TRUE
         ELSE IF choice \in Bearers(name) THEN choice ELSE None

C9_NameResolution ==
    [][\A name \in NameStrings, choice \in Choices \cup {None} :
          /\ ResolveSource(name, choice) => source' = Resolution(name, choice)
          /\ ResolveTarget(name, choice) => target' = Resolution(name, choice)]_vars

\* Both names have been resolved: the source shares its name with another
\* person and was picked at the prompt, the target's name is its own.
C9_Witness ==
    /\ pc = "call"
    /\ Cardinality(Bearers(people[source].name)) > 1
    /\ Cardinality(Bearers(people[target].name)) = 1

\* C10: when the source or the target name resolves to no identifier the
\* run ends in the "Person not found." exit with the search never entered;
\* the search is entered only with both names resolved.
C10_SearchOnlyAfterResolution ==
    /\ InShortestPath =>
          source \in DOMAIN people /\ target \in DOMAIN people
    /\ pc = "call" => source \in DOMAIN people /\ target \in DOMAIN people
    /\ pc = "input_target" => source \in DOMAIN people /\ target = None
    /\ pc = "exit_not_found" =>
          /\ source = None \/ target = None
          /\ frontier = << >> /\ nodes_db = EmptyDict
          /\ ~ENABLED Next

\* The source was resolved, the target was not, and the run has ended in
\* the exit.
C10_Witness ==
    /\ pc = "exit_not_found"
    /\ source # None
    /\ target = None

\* The people who have a node waiting in the frontier f.
FrontierStates(f) == {f[i].state : i \in 1..Len(f)}

\* The people put in the frontier so far in this call: the source, whoever
\* is recorded and whoever waits in the frontier.
EverAdded == {source} \cup DOMAIN nodes_db \cup FrontierStates(frontier)

\* The people recorded and no longer waiting: those already dequeued.
Expanded == DOMAIN nodes_db \ FrontierStates(frontier)

\* One step of the loop adds and dequeues only people not seen before.
AddedOnceStep ==
    pc \in {"while", "for"} =>
        /\ \A i, j \in 1..Len(frontier) :
              i # j => frontier[i].state # frontier[j].state
        /\ EverAdded \subseteq EverAdded'
        /\ Len(frontier') > Len(frontier) =>
              /\ Len(frontier') = Len(frontier) + 1
              /\ \E i \in 1..Len(frontier') :
                    frontier'[i].state \notin EverAdded
        /\ Len(frontier') < Len(frontier) =>
              /\ Len(frontier') = Len(frontier) - 1
              /\ \E q \in FrontierStates(frontier) :
                    /\ q \notin FrontierStates(frontier')
                    /\ q \notin Expanded
                    /\ q \in Expanded'

\* C11: during one call every person is added to the frontier at most once,
\* the source included, and so is dequeued at most once: no two waiting
\* nodes are of the same person, a person once added stays known as added,
\* a node is added only for a person not added before, and a node is
\* dequeued only for a person not dequeued before.
C11_AddedAtMostOnce == [][AddedOnceStep]_vars

\* A person reached from one member of the source's layer, and sharing a
\* movie with another member of that layer as well, has been dequeued along
\* with both of them.
C11_Witness ==
    /\ pc = "while"
    /\ \E q, a, b \in Expanded \ {source} :
          /\ a # b /\ q # a /\ q # b
          /\ nodes_db[a].parent = source
          /\ nodes_db[b].parent = source
          /\ nodes_db[q].parent = a
          /\ ShareMovie(b, q)

\* One step inside a call leaves every key of nodes_db mapped to its node.
WriteOnceStep ==
    pc \in {"while", "for", "after_loop", "backtrack"} =>
        \A p \in DOMAIN nodes_db :
            /\ p \in DOMAIN nodes_db'
            /\ nodes_db'[p] = nodes_db[p]

\* C12: nodes_db is write-once per key within one call: once an identifier
\* is mapped to a node, no later step of the call maps it to another node
\* (another parent or action) or removes it.
C12_WriteOnce == [][WriteOnceStep]_vars

\* A recorded person has come up again as a neighbour through a movie other
\* than the recorded one, and the search has gone on to the backtracking.
C12_Witness ==
    /\ pc = "backtrack"
    /\ \E p \in DOMAIN nodes_db \ {source} :
          \E q \in Expanded \ {p, target} :
              \E m \in people[q].movies :
                  /\ m # nodes_db[p].action
                  /\ m \in DOMAIN movies
                  /\ p \in movies[m].stars

\* Following at most k parent links in db from node ends at the start node.
RECURSIVE ChainToStart(_, _, _)
ChainToStart(db, node, k) ==
    IF node = StartNode(source) THEN TRUE
    ELSE IF k = 0 \/ node.parent \notin DOMAIN db THEN FALSE
    ELSE ChainToStart(db, db[node.parent], k - 1)

\* The nodes held by nodes_db and by the frontier.
HeldNodes ==
    {nodes_db[p] : p \in DOMAIN nodes_db} \cup
    {frontier[i] : i \in 1..Len(frontier)}

\* Every held node with a parent has the parent recorded, and its parent
\* chain ends at the start node without passing a person twice.
ParentsRecorded ==
    \A node \in HeldNodes :
        /\ node.parent # None => node.parent \in DOMAIN nodes_db
        /\ ChainToStart(nodes_db, node, Cardinality(DOMAIN nodes_db))

\* One step of a call records a node only after its parent.
ParentFirstStep ==
    /\ InShortestPath => ParentsRecorded
    /\ InShortestPath' => ParentsRecorded'
    /\ pc \in {"while", "for"} =>
          \A p \in DOMAIN nodes_db' \ DOMAIN nodes_db :
              \/ nodes_db'[p].parent = None
              \/ nodes_db'[p].parent \in DOMAIN nodes_db

\* C13: in every state of the search loop every node of nodes_db or of the
\* frontier with a parent other than None has that parent recorded in
\* nodes_db, and the parent was recorded in an earlier step than the node;
\* the parent chain of every recorded node is acyclic and ends at the
\* source node.
C13_ParentRecordedFirst == [][ParentFirstStep]_vars

\* A node waits in the frontier three parent links away from the start node.
C13_Witness ==
    /\ pc = "for"
    /\ \E i \in 1..Len(frontier) :
          /\ ChainToStart(nodes_db, frontier[i], 3)
          /\ ~ChainToStart(nodes_db, frontier[i], 2)

\* C14 as stated: the record-if-absent step at dequeue is a no-op on every
\* iteration, the node about to be dequeued being recorded already.
C14_DequeueRecordNoOp ==
    (pc = "while" /\ ~FrontierEmpty(frontier)) =>
        FrontierRemoved(frontier).state \in DOMAIN nodes_db

\* C14, amended: the record-if-absent step at dequeue writes on the first
\* iteration of every call, where it records the start node, which was put
\* in the frontier unrecorded, and is a no-op on every later iteration, the
\* dequeued node being the one recorded for its person when it was
\* enqueued; from the first iteration on the source is mapped to the start
\* node.
C14_DequeueRecordsStartNodeOnly ==
    /\ (pc = "while" /\ ~FrontierEmpty(frontier)) =>
          LET cur == FrontierRemoved(frontier)
          IN IF nodes_db = EmptyDict
             THEN cur = StartNode(source) /\ frontier = <<cur>>
             ELSE cur.state \in DOMAIN nodes_db /\ nodes_db[cur.state] = cur
    /\ (InShortestPath /\ ~(pc = "while" /\ nodes_db = EmptyDict)) =>
          source \in DOMAIN nodes_db /\ nodes_db[source] = StartNode(source)

\* A node recorded at its enqueue is about to be dequeued, and the source
\* turned up among its own neighbours after the first iteration.
C14_Witness ==
    /\ pc = "while"
    /\ ~FrontierEmpty(frontier)
    /\ FrontierRemoved(frontier).state \in DOMAIN nodes_db \ {source}
    /\ \E m \in people[source].movies :
          m \in DOMAIN movies /\ source \in movies[m].stars

\* The number of parent links from node to a node without parent, following
\* at most k links in db.
RECURSIVE ChainLength(_, _, _)
ChainLength(db, node, k) ==
    IF k = 0 \/ node.parent \notin DOMAIN db THEN 0
    ELSE 1 + ChainLength(db, db[node.parent], k - 1)

\* The depth of a node: the length of its parent chain.
Depth(db, node) == ChainLength(db, node, Cardinality(DOMAIN db) + 1)

\* One step of the loop dequeues no node shallower than the one dequeued
\* before it, and skips no neighbour recorded more than one layer deeper
\* than the current node.
LayerStep ==
    /\ (pc = "while" /\ Len(frontier') < Len(frontier)
                     /\ current.state # None) =>
          Depth(nodes_db', current') >= Depth(nodes_db, current)
    /\ (pc = "for" /\ frontier' = frontier) =>
          \A neighbor \in neighbors \ neighbors' :
              /\ neighbor[2] \in DOMAIN nodes_db
              /\ Depth(nodes_db, nodes_db[neighbor[2]]) <=
                     Depth(nodes_db, current) + 1

\* C15: nodes leave the first-in-first-out frontier in non-decreasing order
\* of depth (the length of the parent chain from the source), and a
\* neighbour skipped as already recorded has a recorded depth of at most the
\* current node's depth plus one.
C15_LayerOrder == [][LayerStep]_vars

\* The node being expanded is one layer from the source, and a neighbour it
\* has just passed over was recorded one layer deeper by another node and
\* still waits in the frontier.
C15_Witness ==
    /\ pc = "for"
    /\ Depth(nodes_db, current) = 1
    /\ \E neighbor \in NeighborsSet(people, movies, current.state) \ neighbors :
          /\ neighbor[2] \in FrontierStates(frontier)
          /\ nodes_db[neighbor[2]].parent # current.state
          /\ Depth(nodes_db, nodes_db[neighbor[2]]) = 2

\* The call with locals L has ended the way the same call ends on its own:
\* it returned None for an unconnected pair, and for a connected pair a list
\* of the least length whose pairs lead from L.source to L.target through
\* shared movies.
AsAlone(L) ==
    /\ L.pc = "returned"
    /\ L.path.is_none <=> ~Connected(L.source, L.target)
    /\ ~L.path.is_none =>
          LET list == L.path.list
              from(i) == IF i = 1 THEN L.source ELSE list[i - 1][2]
          IN /\ Len(list) = Distance(L.source, L.target)
             /\ Len(list) > 0 => list[Len(list)][2] = L.target
             /\ \A i \in 1..Len(list) :
                   /\ list[i][1] \in DOMAIN movies
                   /\ {from(i), list[i][2]} \subseteq movies[list[i][1]].stars

\* One step of two interleaved searches: the tables are left alone, the
\* call that does not take the step keeps its locals, and a call that has
\* ended has ended as it does on its own.
InterleavedStep ==
    /\ InShortestPath => tables' = tables
    /\ other # NoCall => other' \in {other, Locals}
    /\ \A L \in {Locals', other'} :
          L.pc \in {"returned", "KeyError"} => AsAlone(L)

\* C16: two shortest_path calls on the same loaded tables, their loop steps
\* interleaved in any order, each return what the call returns when run
\* alone: the frontier and nodes_db of each are its own, and no step of a
\* search changes people, movies or names.
C16_InterleavedAsAlone == [][InterleavedStep]_vars

\* Two searches from different sources are both inside their for loop, each
\* with two people recorded, over tables on which both targets are two
\* steps away.
C16_Witness ==
    /\ pc = "for"
    /\ other.pc = "for"
    /\ source # other.source
    /\ Cardinality(DOMAIN nodes_db) >= 2
    /\ Cardinality(DOMAIN other.nodes_db) >= 2
    /\ Connected(source, target) /\ Distance(source, target) = 2
    /\ Connected(other.source, other.target)
    /\ Distance(other.source, other.target) = 2

\* C17: on mutually consistent tables, for a known source and any target,
\* shortest_path terminates: the search loop exits and the backtracking loop
\* reaches the source node, so that the call returns.
C17_Terminates == (pc = "while" /\ Consistent) ~> (pc = "returned")

\* A search over consistent tables in which every loaded person has a movie
\* has returned a list of two pairs.
C17_Witness ==
    /\ pc = "returned"
    /\ Consistent
    /\ \A p \in DOMAIN people : people[p].movies # {}
    /\ ~path.is_none
    /\ Len(path.list) = 2

\* C18: every non-empty list shortest_path(source, target) returns connects
\* the endpoints: the person of the last pair is the target, the movie of
\* the first pair has the source among its stars, and no pair has None for
\* its movie.
C18_ConnectsEndpoints ==
    (pc = "returned" /\ ~path.is_none /\ Len(path.list) > 0) =>
        LET list == path.list
        IN /\ list[Len(list)][2] = target
           /\ list[1][1] \in DOMAIN movies
           /\ source \in movies[list[1][1]].stars
           /\ \A i \in 1..Len(list) : list[i][1] # None

\* A list of two pairs has been returned, the second pair's movie being one
\* the source is not in.
C18_Witness ==
    /\ pc = "returned"
    /\ ~path.is_none
    /\ Len(path.list) = 2
    /\ path.list[2][1] \notin people[source].movies

\* C19: every returned list is a simple path: no person is in two of its
\* pairs, and the source is the person of none, although the neighbours of
\* a person include the person with each of their movies.
C19_SimplePath ==
    (pc = "returned" /\ ~path.is_none) =>
        LET list == path.list
        IN /\ \A i, j \in 1..Len(list) : i # j => list[i][2] # list[j][2]
           /\ \A i \in 1..Len(list) : list[i][2] # source

\* A list of two pairs has been returned, and the source and both people of
\* the list were each offered as their own neighbour.
C19_Witness ==
    /\ pc = "returned"
    /\ ~path.is_none
    /\ Len(path.list) = 2
    /\ \A p \in {source, path.list[1][2]} :
          /\ ~NeighborsRaises(people, movies, p)
          /\ \E m \in people[p].movies :
                <<m, p>> \in NeighborsSet(people, movies, p)

====
